---- MODULE Spec2Model ----
(***************************************************************************)
(* Content mirror engine of esprit_complete_downloader.py:                 *)
(*   sanitize_filename / the filename_safe expression of download_pdf,     *)
(*   extract_pdf_links_from_body, extract_resources_from_html,             *)
(*   download_pdf, download_resource, save_html_page and the tree walk     *)
(*   process_content of download_course_complete.                          *)
(*                                                                         *)
(* Text is modelled as a sequence of tokens.  A token is either one of the *)
(* characters the sanitizer looks at ("%", a hex digit, an illegal         *)
(* character) or an opaque run of harmless characters such as "x" or       *)
(* ".pdf" (never holding "%" or an illegal character, never placed right  *)
(* after a "%").                                                           *)
(***************************************************************************)
EXTENDS Integers, Sequences, FiniteSets, TLC

VARIABLES
    san,      \* the sanitizer harness
    course,   \* the remote tree and the options of the run (never changes)
    remote,   \* the answer of the remote to every URL requested so far
    files,    \* path -> content of every regular file on disk
    dirs,     \* the directories on disk
    pc,       \* "idle" between runs, "running" inside download_course_complete
    run,      \* number of the current (or last) run
    top,      \* index of the next top-level content to process
    stack,    \* the active calls of process_content, innermost last
    page,     \* the locals of the active call of save_html_page
    stats,    \* the counters of download_course_complete
    gets,     \* the URLs requested with GET in this run, in order
    writes,   \* the paths written in this run, in order
    snap,     \* files and dirs at the start of this run
    visited,  \* the contents process_content was called for in this run, in order
    raised    \* the calls of content.children() and content.attachments() that
              \* raised in this run of download_course_complete, in order

vars == <<san, course, remote, files, dirs, pc, run, top, stack, page, stats,
          gets, writes, snap, visited, raised>>

mirror_vars == <<course, remote, files, dirs, pc, run, top, stack, page, stats,
                 gets, writes, snap, visited, raised>>

(***************************************************************************)
(* Bounds                                                                  *)
(***************************************************************************)
\* longest file name (in tokens) handed to the sanitizers
MaxLen == 4

\* most contents of a course
MaxNodes == 3

\* most contents of a course that is mirrored twice
MaxRerunNodes == 2

\* most tags of a document body
MaxTags == 2

\* most contents of a course in the runs over deep trees
MaxDeepNodes == 4

\* most contents of a course walked by download_with_logging
MaxLogNodes == 3

\* most contents of a course whose listings may raise
MaxFaultNodes == 2

\* longest tail (in characters) of a name handed to the sanitizer of scraper.py
MaxTail == 3

(***************************************************************************)
(* Characters                                                              *)
(***************************************************************************)
\* the character class [<>:"/\\|?*] of lines 82, 161 and 252
IllegalChars == {"<", ">", ":", "\"", "/", "\\", "|", "?", "*"}

\* the hex digits the model writes after a "%"
HexDigits == {"2", "5", "F"}

\* U+FFFD, what unquote yields for a byte that is no valid UTF-8
ReplacementChar == "U+FFFD"

\* urllib.parse.unquote on one escape %XY: the character with code XY
HexByte(a, b) ==
    CASE a = "2" /\ b = "2" -> "\""
      [] a = "2" /\ b = "5" -> "%"
      [] a = "2" /\ b = "F" -> "/"
      [] a = "5" /\ b = "2" -> "R"
      [] a = "5" /\ b = "5" -> "U"
      [] a = "5" /\ b = "F" -> "_"
      [] OTHER -> ReplacementChar

RECURSIVE unquote(_)
\* urllib.parse.unquote: one left-to-right pass, every %XY with two hex
\* digits becomes one character, any other "%" stays
unquote(s) ==
    IF s = <<>> THEN <<>>
    ELSE IF s[1] = "%" /\ Len(s) >= 3 /\ s[2] \in HexDigits /\ s[3] \in HexDigits
         THEN <<HexByte(s[2], s[3])>> \o unquote(SubSeq(s, 4, Len(s)))
         ELSE <<s[1]>> \o unquote(Tail(s))

\* re.sub('[<>:"/\\\\|?*]', '', s)
StripIllegal(s) == SelectSeq(s, LAMBDA c : c \notin IllegalChars)

\* sanitize_filename (line 161): percent-decode, then strip
sanitize_filename(filename) == StripIllegal(unquote(filename))

\* filename_safe of download_pdf (line 82): strip, then percent-decode
pdf_filename_safe(filename) == unquote(StripIllegal(filename))

HasIllegal(s) == \E i \in 1..Len(s) : s[i] \in IllegalChars

(***************************************************************************)
(* URLs and markup.                                                        *)
(* A URL, as the Python code holds it after html.unescape, is a record     *)
(*   scheme : "site" (starts with "/"), "http" (absolute), "rel" (neither) *)
(*            or "data" (an inline data: URI)                              *)
(*   dir    : the directory of a rewritten, local link (<<>> otherwise)    *)
(*   file   : the last path segment, a name                                *)
(*   query  : 0 for no query string, n > 0 for the query string "?v=n"     *)
(*   amp    : whether the query string holds a "&"                         *)
(* The text of an href/src attribute is the same record, except that amp   *)
(* says how the "&" is written in the markup: "none", "raw" (&) or         *)
(* "entity" (&amp;).                                                       *)
(***************************************************************************)
NoName == <<"<none>">>

\* html.unescape of an attribute text: "&amp;" and "&" both give "&"
html_unescape(text) == [text EXCEPT !.amp = (text.amp # "none")]

\* a URL put into an f-string: its "&" is written raw
UrlLiteral(url) == [url EXCEPT !.amp = IF url.amp THEN "raw" ELSE "none"]

\* mutant: the link names another file than the one download_resource returned
LocalLink_other(filename_base, local_path) ==
    [scheme |-> "local", dir |-> filename_base \o <<"_files">>,
     file |-> local_path \o <<".bak">>, query |-> 0, amp |-> "none"]

\* f"{filename_base}_files/{local_path}" (line 282)
LocalLink(filename_base, local_path) ==
    [scheme |-> "local", dir |-> filename_base \o <<"_files">>,
     file |-> local_path, query |-> 0, amp |-> "none"]

\* client.site + url (lines 80, 167)
SiteJoin(url) == [url EXCEPT !.scheme = "http"]

EndsWith(name, ext) == Len(name) > 0 /\ name[Len(name)] = ext

\* the extensions of link_pattern (line 149)
DocExts == {".doc", ".docx", ".xls", ".xlsx", ".ppt", ".pptx"}

(***************************************************************************)
(* A data-bbfile blob: json_ok says whether json.loads accepts it,         *)
(* fileName is fileName/linkName/displayName (NoName when all are absent), *)
(* alt is alternativeText/displayName.  A tag of the body:                 *)
(*   el      : "a" or "img"                                                *)
(*   attr    : the attribute that holds the URL, as written ("href",       *)
(*             "src", or upper case "HREF", "SRC")                         *)
(*   quote   : "dq" or "sq"                                                *)
(*   val     : the attribute text                                          *)
(*   bb      : the data-bbfile blob, NoBlob when there is none             *)
(*   bbFirst : data-bbfile is written before href                          *)
(*   closed  : the closing </a> follows on the same line                   *)
(*   alt     : the alt text of a generated <img>, empty for any other tag  *)
(***************************************************************************)
NoBlob == [json_ok |-> FALSE, fileName |-> NoName, mimeType |-> "", alt |-> <<>>, id |-> 0]

HasBlob(t) == t.bb # NoBlob

IsImageMime(mime) == mime = "image/png"

\* bbfile_pattern of extract_resources_from_html (line 118) matches the tag
BbfileMatch(t) == t.attr = "href" /\ t.quote = "dq" /\ HasBlob(t) /\ ~t.bbFirst

RECURSIVE bbfile_rule(_, _, _)
\* lines 117-137: one 'attachment' resource per structured marker whose
\* blob parses and names a file; no duplicate check
bbfile_rule(body, i, acc) ==
    IF i > Len(body) THEN acc
    ELSE LET t == body[i]
             hit == BbfileMatch(t) /\ t.bb.json_ok /\ t.bb.fileName # NoName
                    /\ t.bb.fileName # <<>>
         IN bbfile_rule(body, i + 1,
                IF hit THEN Append(acc, [url |-> html_unescape(t.val),
                                         filename |-> t.bb.fileName,
                                         type |-> "attachment",
                                         mime |-> t.bb.mimeType])
                ELSE acc)

\* mutant: the duplicate check of the later rules is dropped
HasUrl_never(acc, url) == FALSE

\* any(r['url'] == url for r in resources) (lines 71, 145, 152)
HasUrl(acc, url) == \E k \in 1..Len(acc) : acc[k].url = url

RECURSIVE img_rule(_, _, _)
\* lines 139-146: <img src=...>, either quote, any case, data: URLs skipped
img_rule(body, i, acc) ==
    IF i > Len(body) THEN acc
    ELSE LET t == body[i]
             url == html_unescape(t.val)
             hit == t.el = "img" /\ t.attr \in {"src", "SRC"}
                    /\ url.scheme # "data" /\ ~HasUrl(acc, url)
         IN img_rule(body, i + 1,
                IF hit THEN Append(acc, [url |-> url, filename |-> NoName,
                                         type |-> "image", mime |-> ""])
                ELSE acc)

RECURSIVE link_rule(_, _, _)
\* lines 148-153: href to an office document, either quote, any case
link_rule(body, i, acc) ==
    IF i > Len(body) THEN acc
    ELSE LET t == body[i]
             url == html_unescape(t.val)
             hit == t.attr \in {"href", "HREF"}
                    /\ (\E e \in DocExts : EndsWith(t.val.file, e))
                    /\ ~HasUrl(acc, url)
         IN link_rule(body, i + 1,
                IF hit THEN Append(acc, [url |-> url, filename |-> NoName,
                                         type |-> "document", mime |-> ""])
                ELSE acc)

\* extract_resources_from_html (lines 110-155)
extract_resources_from_html(body) ==
    IF body = <<>> THEN <<>>
    ELSE link_rule(body, 1, img_rule(body, 1, bbfile_rule(body, 1, <<>>)))

\* href_pattern of extract_pdf_links_from_body (line 51): the first tag that
\* holds this blob text with a double-quoted href after it; 0 when none
FirstHrefAfterBlob(body, blob) ==
    LET hits == {j \in 1..Len(body) :
                    /\ body[j].bb = blob /\ body[j].bbFirst
                    /\ body[j].attr = "href" /\ body[j].quote = "dq"}
    IN IF hits = {} THEN 0 ELSE CHOOSE j \in hits : \A k \in hits : j <= k

RECURSIVE pdf_bbfile_rule(_, _, _)
\* lines 39-61: every data-bbfile blob naming a .pdf, with the href found
\* after the first occurrence of that blob; no duplicate check
pdf_bbfile_rule(body, i, acc) ==
    IF i > Len(body) THEN acc
    ELSE LET t == body[i]
             j == FirstHrefAfterBlob(body, t.bb)
             hit == HasBlob(t) /\ t.bb.json_ok /\ EndsWith(t.bb.fileName, ".pdf")
                    /\ j # 0
         IN pdf_bbfile_rule(body, i + 1,
                IF hit THEN Append(acc, [url |-> html_unescape(body[j].val),
                                         filename |-> t.bb.fileName])
                ELSE acc)

RECURSIVE pdf_href_rule(_, _, _)
\* lines 63-72: double-quoted href (any case) whose last path segment ends
\* in .pdf, unless the URL is already listed
pdf_href_rule(body, i, acc) ==
    IF i > Len(body) THEN acc
    ELSE LET t == body[i]
             url == html_unescape(t.val)
             hit == t.attr \in {"href", "HREF"} /\ t.quote = "dq"
                    /\ EndsWith(url.file, ".pdf") /\ ~HasUrl(acc, url)
         IN pdf_href_rule(body, i + 1,
                IF hit THEN Append(acc, [url |-> url, filename |-> url.file])
                ELSE acc)

\* extract_pdf_links_from_body (lines 32-74)
extract_pdf_links_from_body(body) ==
    IF body = <<>> THEN <<>>
    ELSE pdf_href_rule(body, 1, pdf_bbfile_rule(body, 1, <<>>))

(***************************************************************************)
(* The file system.  A path is a sequence of segments (names) from the     *)
(* root; files maps the path of every regular file to its content and dirs *)
(* is the set of directories.                                              *)
(***************************************************************************)
\* the working directory, where './ESPRIT_Downloads' is resolved
Cwd == <<<<"cwd">>>>

\* os.path.join(save_location, course.name_safe) (line 447)
base_path == Cwd \o <<<<"ESPRIT_Downloads">>, <<"course">>>>

Prefixes(p) == {SubSeq(p, 1, k) : k \in 0..Len(p)}

Parent(p) == SubSeq(p, 1, Len(p) - 1)

RECURSIVE SplitSlash(_, _)
\* the segments of a name between its "/" characters; cur is the segment
\* being read
SplitSlash(name, cur) ==
    IF name = <<>> THEN <<cur>>
    ELSE IF name[1] = "/" THEN <<cur>> \o SplitSlash(Tail(name), <<>>)
         ELSE SplitSlash(Tail(name), Append(cur, name[1]))

RECURSIVE NormPath(_, _)
\* os.path.normpath: empty and "." segments vanish, ".." removes a segment
NormPath(base, segs) ==
    IF segs = <<>> THEN base
    ELSE LET sg == segs[1]
         IN IF sg = <<>> \/ sg = <<".">> THEN NormPath(base, Tail(segs))
            ELSE IF sg = <<"..">>
                 THEN NormPath(IF base = <<>> THEN base ELSE Parent(base), Tail(segs))
                 ELSE NormPath(Append(base, sg), Tail(segs))

\* os.path.abspath(os.path.join(save_path, name)) (lines 83, 254): a name
\* starting with "/" replaces save_path
AbsJoin(save_path, name) ==
    IF name # <<>> /\ name[1] = "/"
    THEN NormPath(<<>>, SplitSlash(name, <<>>))
    ELSE NormPath(save_path, SplitSlash(name, <<>>))

IsFile(F, p) == p \in DOMAIN F

\* os.path.exists
Exists(F, D, p) == p \in DOMAIN F \/ p \in D

\* os.makedirs succeeds: no regular file stands where a directory is needed
CanMakedirs(F, d) == \A q \in Prefixes(d) : q \notin DOMAIN F

Makedirs(D, d) == D \cup Prefixes(d)

\* open(p, 'w') succeeds: the directory is there and p is no directory
CanOpenWrite(F, D, p) == p # <<>> /\ Parent(p) \in D /\ p \notin D

\* the file p now holds c
WriteFile(F, p, c) == [q \in (DOMAIN F) \cup {p} |-> IF q = p THEN c ELSE F[q]]

Bytes(url) == [kind |-> "bytes", from |-> url, body |-> <<>>]

Html(body) == [kind |-> "html", from |-> <<>>, body |-> body]

\* the HTTP status codes of the remote, and "exc" for a transport exception
Status == {"200", "404", "exc"}

\* mutant: every answer with a status counts as a success
StatusOk_any(st) == st # "exc"

\* response.status_code == 200 (lines 89, 193); "exc" is session.get raising
StatusOk(st) == st = "200"

\* mutant: every URL is taken for one that can be requested
Sendable_always(url) == TRUE

\* requests can send the request: the URL is absolute
Sendable(url) == url.scheme = "http"

\* mutant: download_pdf writes without looking whether the file is there
PdfTargetTaken_never(F, loc) == FALSE

\* os.path.isfile(download_location) (line 93)
PdfTargetTaken(F, loc) == IsFile(F, loc)

(***************************************************************************)
(* download_pdf (lines 77-106) on the file system (F, D) when the remote   *)
(* answers st: ret is the return value, get whether a request was sent,    *)
(* wrote the set of paths written.                                         *)
(***************************************************************************)
download_pdf(url, filename, save_path, F, D, st) ==
    LET target == IF url.scheme = "site" THEN SiteJoin(url) ELSE url
        filename_safe == pdf_filename_safe(filename)
        download_location == AbsJoin(save_path, filename_safe)
        download_directory == Parent(download_location)
        fail(D1, sent) == [ret |-> FALSE, files |-> F, dirs |-> D1, get |-> sent,
                           target |-> target, wrote |-> {}]
    IN IF ~Sendable(target) THEN fail(D, FALSE)
       ELSE IF ~StatusOk(st) THEN fail(D, TRUE)
       ELSE IF ~Exists(F, D, download_directory) /\ ~CanMakedirs(F, download_directory)
            THEN fail(D, TRUE)
       ELSE LET D1 == IF Exists(F, D, download_directory) THEN D
                      ELSE Makedirs(D, download_directory)
            IN IF PdfTargetTaken(F, download_location) THEN fail(D1, TRUE)
               ELSE IF ~CanOpenWrite(F, D1, download_location) THEN fail(D1, TRUE)
               ELSE [ret |-> TRUE,
                     files |-> WriteFile(F, download_location, Bytes(target)),
                     dirs |-> D1, get |-> TRUE, target |-> target,
                     wrote |-> {download_location}]

\* hashlib.md5(url)[:8]: a token that differs for different URLs
UrlHash(url) ==
    <<url.scheme, IF url.query = 0 THEN "q0" ELSE IF url.query = 1 THEN "q1" ELSE "qn",
      IF url.amp THEN "amp" ELSE "noamp">>

\* lines 172-181: the declared filename, else the last path segment, else
\* a name made from a hash of the URL
ResourceFilename(url, filename) ==
    IF filename # NoName /\ filename # <<>> THEN filename
    ELSE IF url.file # <<>> THEN url.file
    ELSE <<"resource_">> \o UrlHash(url) \o <<".bin">>

\* mutant: download_resource fetches without looking whether the file is there
ResourceTargetTaken_never(F, loc) == FALSE

\* os.path.isfile(download_location) (line 188)
ResourceTargetTaken(F, loc) == IsFile(F, loc)

(***************************************************************************)
(* download_resource (lines 164-202): ret is the local file name, NoName   *)
(* for None.                                                               *)
(***************************************************************************)
download_resource(url, filename, save_path, F, D, st) ==
    LET target == IF url.scheme = "site" THEN SiteJoin(url) ELSE url
        filename_safe == sanitize_filename(ResourceFilename(target, filename))
        \* os.path.join without normpath: "", "." and ".." name a directory
        names_dir == filename_safe \in {<<>>, <<".">>, <<"..">>}
        download_location == Append(save_path, filename_safe)
        none(D1, sent) == [ret |-> NoName, files |-> F, dirs |-> D1, get |-> sent,
                           target |-> target, wrote |-> {}]
    IN IF ~Sendable(target) THEN none(D, FALSE)
       ELSE IF ~names_dir /\ ResourceTargetTaken(F, download_location)
            THEN [ret |-> filename_safe, files |-> F, dirs |-> D, get |-> FALSE,
                  target |-> target, wrote |-> {}]
       ELSE IF ~StatusOk(st) THEN none(D, TRUE)
       ELSE IF ~CanMakedirs(F, save_path) THEN none(D, TRUE)
       ELSE LET D1 == Makedirs(D, save_path)
            IN IF names_dir \/ ~CanOpenWrite(F, D1, download_location)
               THEN none(D1, TRUE)
               ELSE [ret |-> filename_safe,
                     files |-> WriteFile(F, download_location, Bytes(target)),
                     dirs |-> D1, get |-> TRUE, target |-> target,
                     wrote |-> {download_location}]

(***************************************************************************)
(* Rewriting the body (save_html_page, lines 279-307)                      *)
(***************************************************************************)
\* the tag holds one of the four literals href="old", href='old',
\* src="old", src='old' (lines 304-307)
LinkTextMatches(t, old_url) ==
    t.attr \in {"href", "src"} /\ t.val = UrlLiteral(old_url)

\* lines 304-307: str.replace of the four literals, every occurrence
LinkRewrite(body, old_url, new_url) ==
    [i \in 1..Len(body) |->
        IF LinkTextMatches(body[i], old_url)
        THEN [body[i] EXCEPT !.val = new_url] ELSE body[i]]

\* the smallest index of a non-empty set of indices, 0 for the empty set
FirstOf(S) == IF S = {} THEN 0 ELSE CHOOSE j \in S : \A k \in S : j <= k

\* the <img> tag of lines 296 and 300
ImgTag(new_url, alt) ==
    [el |-> "img", attr |-> "src", quote |-> "dq", val |-> new_url,
     bb |-> NoBlob, bbFirst |-> FALSE, closed |-> FALSE, alt |-> alt]

\* the letters that may follow a backslash in the replacement text of re.sub
TemplateEscapes == {"a", "b", "f", "n", "r", "t", "v"}

\* the tokens of the model that do not begin with a letter or a digit
NonAlnumTokens == IllegalChars \cup {".png", ".pdf", ".docx", ".html", ".bin", "_", "%"}

RECURSIVE TemplateRaises(_)
\* re.sub(pattern, repl, ...) compiles repl before it searches: a backslash
\* at the end, or before a letter that is no escape or before a digit that
\* is no group, raises re.error
TemplateRaises(repl) ==
    IF repl = <<>> THEN FALSE
    ELSE IF repl[1] # "\\" THEN TemplateRaises(Tail(repl))
    ELSE IF Len(repl) = 1 THEN TRUE
    ELSE IF repl[2] \in TemplateEscapes \cup NonAlnumTokens
         THEN TemplateRaises(SubSeq(repl, 3, Len(repl)))
         ELSE TRUE

\* line 290: href="old"[^>]*data-bbfile="({[^"]+})", the first match, 0
\* when there is none
BbfileSearch(body, old_url) ==
    FirstOf({j \in 1..Len(body) :
                BbfileMatch(body[j]) /\ body[j].val = UrlLiteral(old_url)})

\* lines 289-297 raise: json.loads rejects the blob, or re.sub rejects the
\* <img> tag made with the alt text of the blob
ImageTryRaises(body, resource, new_url) ==
    LET bbfile_match == BbfileSearch(body, resource.url)
    IN /\ bbfile_match # 0
       /\ \/ ~body[bbfile_match].bb.json_ok
          \/ TemplateRaises(new_url.dir \o new_url.file \o body[bbfile_match].bb.alt)

\* lines 298-301 raise: re.sub rejects the <img> tag made with the file name
ImageFallbackRaises(body, resource, new_url) ==
    /\ ImageTryRaises(body, resource, new_url)
    /\ TemplateRaises(new_url.dir \o new_url.file \o resource.filename)

\* lines 283-301: the <a ...>...</a> of an image attachment becomes an <img>
ImageRewrite(body, resource, new_url) ==
    LET lit == UrlLiteral(resource.url)
        bbfile_match == BbfileSearch(body, resource.url)
        \* line 285: <a[^>]*href="old"[^>]*data-bbfile="[^"]*"[^>]*>.*?</a>
        target == FirstOf({j \in 1..Len(body) :
                            /\ body[j].el = "a" /\ BbfileMatch(body[j])
                            /\ body[j].val = lit /\ body[j].closed})
        alt == IF ImageTryRaises(body, resource, new_url)
               THEN resource.filename ELSE body[bbfile_match].bb.alt
    IN IF bbfile_match = 0 \/ target = 0 THEN body
       ELSE [body EXCEPT ![target] = ImgTag(new_url, alt)]

\* lines 279-307: the rewrite for one fetched resource
Rewrite(body, resource, new_url) ==
    IF resource.type = "attachment" /\ IsImageMime(resource.mime)
    THEN ImageRewrite(body, resource, new_url)
    ELSE LinkRewrite(body, resource.url, new_url)

\* lines 283-301: the exception of the handler of line 298 leaves the loop
RewriteRaises(body, resource, new_url) ==
    /\ resource.type = "attachment" /\ IsImageMime(resource.mime)
    /\ ImageFallbackRaises(body, resource, new_url)

(***************************************************************************)
(* The course: nodes[n] is the content with id n, parent 0 for a top-level *)
(* content.                                                                *)
(***************************************************************************)
DocumentHandler == "resource/x-bb-document"

FolderHandler == "resource/x-bb-folder"

RECURSIVE ChildrenFrom(_, _, _)
\* the contents whose parent is n, in listing order
ChildrenFrom(nodes, n, k) ==
    IF k > Len(nodes) THEN <<>>
    ELSE (IF nodes[k].parent = n THEN <<k>> ELSE <<>>) \o ChildrenFrom(nodes, n, k + 1)

\* mutant: a listing returns the first child only
Children_first(nodes, n) ==
    IF ChildrenFrom(nodes, n, 1) = <<>> THEN <<>> ELSE <<ChildrenFrom(nodes, n, 1)[1]>>

\* content.children() / course.contents()
Children(nodes, n) == ChildrenFrom(nodes, n, 1)

\* content.has_children
HasChildren(nodes, n) == Children(nodes, n) # <<>>

\* content.title_safe: the title without the characters illegal in a path
title_safe(title) == StripIllegal(title)

\* the download URL of attachment i of content n (line 416)
AttachmentUrl(n, i) ==
    [scheme |-> "site", dir |-> <<"contents", ToString(n), "attachments", ToString(i)>>,
     file |-> <<"download">>, query |-> 0, amp |-> FALSE]

(***************************************************************************)
(* download_course_complete (lines 370-464) as a state machine.  A frame   *)
(* of the stack is one call of process_content:                            *)
(*   node, path, parent_has_single_child : the arguments                   *)
(*   child_path, has_single_child        : the locals of lines 393-407     *)
(*   at   : the step the call is at                                        *)
(*   list : the list being iterated (attachments, pdf_links, children)     *)
(*   i    : the index of the next element of list                          *)
(*   listings : how often the call has asked content.children()            *)
(***************************************************************************)
\* the locals of the latest call of save_html_page: results[k] is what
\* download_resource did for resources[k] (sent: a request was sent, status:
\* the answer, local_path: the return value) and ret the return value of
\* save_html_page ("none" while it runs)
NoPage == [node |-> 0, filename_base |-> <<>>, download_location |-> <<>>,
           resources_folder |-> <<>>, resources |-> <<>>, i |-> 0,
           modified_body |-> <<>>, results |-> <<>>, ret |-> "none"]

\* mutant: a run starts with a counter that is not zero
ZeroStats_stale == [api_attachments |-> 0, embedded_pdfs |-> 1, html_pages |-> 0]

\* lines 380-384
ZeroStats == [api_attachments |-> 0, embedded_pdfs |-> 0, html_pages |-> 0]

Frame(n, path, flag) ==
    [node |-> n, path |-> path, parent_has_single_child |-> flag,
     child_path |-> <<>>, has_single_child |-> FALSE,
     at |-> "path", list |-> <<>>, i |-> 0, listings |-> 0]

Top == stack[Len(stack)]

Node == course.nodes[Top.node]

SetTop(f) == [stack EXCEPT ![Len(stack)] = f]

\* the remote is unchanged: a URL requested before gets the same answer
Answers(url, st) ==
    LET target == IF url.scheme = "site" THEN SiteJoin(url) ELSE url
    IN target \in DOMAIN remote => remote[target] = st

Learn(r, st) ==
    IF r.get /\ r.target \notin DOMAIN remote
    THEN [u \in (DOMAIN remote) \cup {r.target} |->
             IF u = r.target THEN st ELSE remote[u]]
    ELSE remote

SeqOf(S) == IF S = {} THEN <<>> ELSE <<CHOOSE x \in S : TRUE>>

\* the effect of one download on the disk and on the logs
Downloaded(r, st) ==
    /\ files' = r.files
    /\ dirs' = r.dirs
    /\ remote' = Learn(r, st)
    /\ gets' = IF r.get THEN Append(gets, r.target) ELSE gets
    /\ writes' = writes \o SeqOf(r.wrote)

\* download_course_complete is called (lines 370-384, 447-448)
StartRun ==
    /\ pc = "idle" /\ run < course.runs
    /\ pc' = "running" /\ run' = run + 1 /\ top' = 1
    /\ stats' = ZeroStats /\ gets' = <<>> /\ writes' = <<>>
    /\ snap' = [files |-> files, dirs |-> dirs]
    /\ visited' = <<>> /\ raised' = <<>>
    /\ UNCHANGED <<san, course, remote, files, dirs, stack, page>>

\* line 451: process_content(content, base_path) for the next top-level content
CallTop ==
    /\ pc = "running" /\ stack = <<>>
    /\ top <= Len(Children(course.nodes, 0))
    /\ stack' = <<Frame(Children(course.nodes, 0)[top], base_path, FALSE)>>
    /\ top' = top + 1
    /\ visited' = Append(visited, Children(course.nodes, 0)[top])
    /\ UNCHANGED <<san, course, remote, files, dirs, pc, run, page, stats, gets,
                   writes, snap, raised>>

\* lines 453-464: the loop is over, the summary is printed
FinishRun ==
    /\ pc = "running" /\ stack = <<>>
    /\ top > Len(Children(course.nodes, 0))
    /\ pc' = "idle"
    /\ UNCHANGED <<san, course, remote, files, dirs, run, top, stack, page, stats,
                   gets, writes, snap, visited, raised>>

\* mutant: a leaf writes into a directory of its own
LeafPath_own(path, title) == Append(path, title_safe(title))

\* lines 402-407: the path of a leaf, the same in both branches
LeafPath(path, title) == path

\* mutant: a container writes into the directory it was handed
ContainerPath_flat(path, title) == path

\* lines 398 and 401: os.path.join(path, content.title_safe)
ContainerPath(path, title) == Append(path, title_safe(title))

\* lines 392-407: the save path of the content
AssignPath ==
    /\ pc = "running" /\ stack # <<>> /\ Top.at = "path"
    /\ LET children == Children(course.nodes, Top.node)
       IN stack' = SetTop([Top EXCEPT
             !.has_single_child = HasChildren(course.nodes, Top.node) /\ Len(children) = 1,
             !.child_path = IF HasChildren(course.nodes, Top.node)
                            THEN ContainerPath(Top.path, Node.title)
                            ELSE LeafPath(Top.path, Node.title),
             !.listings = IF HasChildren(course.nodes, Top.node) THEN @ + 1 ELSE @,
             !.at = "attachments"])
    /\ UNCHANGED <<san, course, remote, files, dirs, pc, run, top, page, stats, gets,
                   writes, snap, visited, raised>>

\* lines 410-414: attachments = content.attachments()
ListAttachments ==
    /\ pc = "running" /\ stack # <<>> /\ Top.at = "attachments"
    /\ stack' = SetTop([Top EXCEPT !.list = Node.atts, !.i = 1,
                            !.at = IF Node.atts = <<>> THEN "body" ELSE "att_loop"])
    /\ UNCHANGED <<san, course, remote, files, dirs, pc, run, top, page, stats, gets,
                   writes, snap, visited, raised>>

\* mutant: the first attachment that is not downloaded ends the loop
NextAttachmentStage_abort(ret, i, n) == IF ~ret \/ i = n THEN "body" ELSE "att_loop"

\* line 414: the for loop goes on to the next attachment whatever
\* download_pdf returned, and to step 2 after the last one
NextAttachmentStage(ret, i, n) == IF i = n THEN "body" ELSE "att_loop"

\* lines 414-418: download_pdf for one attachment
DownloadAttachment ==
    /\ pc = "running" /\ stack # <<>> /\ Top.at = "att_loop"
    /\ \E st \in Status :
        /\ Answers(AttachmentUrl(Top.node, Top.i), st)
        /\ LET r == download_pdf(AttachmentUrl(Top.node, Top.i), Top.list[Top.i],
                                 Top.child_path, files, dirs, st)
           IN /\ Downloaded(r, st)
              /\ stats' = IF r.ret
                          THEN [stats EXCEPT !.api_attachments = @ + 1] ELSE stats
              /\ stack' = SetTop([Top EXCEPT !.i = @ + 1,
                     !.at = NextAttachmentStage(r.ret, Top.i, Len(Top.list))])
    /\ UNCHANGED <<san, course, pc, run, top, page, snap, visited, raised>>

\* lines 423-426: pdf_links = extract_pdf_links_from_body(content.body)
ExtractPdfLinks ==
    /\ pc = "running" /\ stack # <<>> /\ Top.at = "body"
    /\ LET pdf_links == extract_pdf_links_from_body(Node.body)
       IN stack' = SetTop([Top EXCEPT !.list = pdf_links, !.i = 1,
             !.at = IF Node.body = <<>> THEN "children"
                    ELSE IF pdf_links = <<>> THEN "html" ELSE "pdf_loop"])
    /\ UNCHANGED <<san, course, remote, files, dirs, pc, run, top, page, stats, gets,
                   writes, snap, visited, raised>>

\* lines 427-429: download_pdf for one embedded PDF link
DownloadEmbeddedPdf ==
    /\ pc = "running" /\ stack # <<>> /\ Top.at = "pdf_loop"
    /\ \E st \in Status :
        /\ Answers(Top.list[Top.i].url, st)
        /\ LET r == download_pdf(Top.list[Top.i].url, Top.list[Top.i].filename,
                                 Top.child_path, files, dirs, st)
           IN /\ Downloaded(r, st)
              /\ stats' = IF r.ret
                          THEN [stats EXCEPT !.embedded_pdfs = @ + 1] ELSE stats
    /\ stack' = SetTop([Top EXCEPT !.i = @ + 1,
                            !.at = IF Top.i = Len(Top.list) THEN "html" ELSE "pdf_loop"])
    /\ UNCHANGED <<san, course, pc, run, top, page, snap, visited, raised>>

\* line 432: the page is not captured
SkipHtmlPage ==
    /\ pc = "running" /\ stack # <<>> /\ Top.at = "html"
    /\ ~(course.save_html_pages /\ Node.handler = DocumentHandler)
    /\ stack' = SetTop([Top EXCEPT !.at = "children"])
    /\ UNCHANGED <<san, course, remote, files, dirs, pc, run, top, page, stats, gets,
                   writes, snap, visited, raised>>

\* mutant: save_html_page does not look whether the HTML file is there
HtmlTargetTaken_never(F, loc) == FALSE

\* os.path.isfile(download_location) (line 262)
HtmlTargetTaken(F, loc) == IsFile(F, loc)

\* save_html_page, lines 246-270: the target path, the existence check and
\* the extraction of the resources
SaveHtmlBegin ==
    /\ pc = "running" /\ stack # <<>> /\ Top.at = "html"
    /\ course.save_html_pages /\ Node.handler = DocumentHandler
    /\ LET filename_base == StripIllegal(Node.title)
           download_location == AbsJoin(Top.child_path, filename_base \o <<".html">>)
           download_directory == Parent(download_location)
           made == ~Exists(files, dirs, download_directory)
                   /\ CanMakedirs(files, download_directory)
           makedirs_raised == ~Exists(files, dirs, download_directory)
                              /\ ~CanMakedirs(files, download_directory)
           resources == extract_resources_from_html(Node.body)
       IN /\ dirs' = IF made THEN Makedirs(dirs, download_directory) ELSE dirs
          /\ IF makedirs_raised \/ HtmlTargetTaken(files, download_location)
             THEN /\ stack' = SetTop([Top EXCEPT !.at = "children"])
                  /\ page' = [NoPage EXCEPT !.node = Top.node, !.ret = "false"]
             ELSE /\ stack' = SetTop([Top EXCEPT
                         !.at = IF resources = <<>> THEN "write" ELSE "resources"])
                  /\ page' = [node |-> Top.node, filename_base |-> filename_base,
                              download_location |-> download_location,
                              resources_folder |->
                                  Append(Top.child_path, filename_base \o <<"_files">>),
                              resources |-> resources, i |-> 1,
                              modified_body |-> Node.body,
                              results |-> <<>>, ret |-> "none"]
    /\ UNCHANGED <<san, course, remote, files, pc, run, top, stats, gets, writes, snap,
                   visited, raised>>

\* save_html_page, lines 271-309: one resource is fetched and the body is
\* rewritten for it
SaveHtmlResource ==
    /\ pc = "running" /\ stack # <<>> /\ Top.at = "resources"
    /\ LET resource == page.resources[page.i]
       IN \E st \in Status :
           /\ Answers(resource.url, st)
           /\ LET r == download_resource(resource.url, resource.filename,
                                         page.resources_folder, files, dirs, st)
                  new_url == LocalLink(page.filename_base, r.ret)
                  \* the exception is caught at line 365: return False
                  raises == r.ret # NoName
                            /\ RewriteRaises(page.modified_body, resource, new_url)
              IN /\ Downloaded(r, st)
                 /\ page' = [page EXCEPT !.i = @ + 1,
                       !.results = Append(@, [sent |-> r.get,
                                              status |-> IF r.get THEN st ELSE "none",
                                              local_path |-> r.ret]),
                       !.modified_body =
                           IF r.ret # NoName /\ ~raises
                           THEN Rewrite(@, resource, new_url) ELSE @,
                       !.ret = IF raises THEN "false" ELSE @]
                 /\ stack' = SetTop([Top EXCEPT
                        !.at = IF raises THEN "children"
                               ELSE IF page.i = Len(page.resources) THEN "write"
                               ELSE "resources"])
    /\ UNCHANGED <<san, course, pc, run, top, stats, snap, visited, raised>>

\* save_html_page, lines 345-367, and lines 433-434: the document is
\* written and counted
SaveHtmlWrite ==
    /\ pc = "running" /\ stack # <<>> /\ Top.at = "write"
    /\ IF CanOpenWrite(files, dirs, page.download_location)
       THEN /\ files' = WriteFile(files, page.download_location, Html(page.modified_body))
            /\ writes' = Append(writes, page.download_location)
            /\ stats' = [stats EXCEPT !.html_pages = @ + 1]
       ELSE UNCHANGED <<files, writes, stats>>
    /\ page' = [page EXCEPT !.ret = IF CanOpenWrite(files, dirs, page.download_location)
                                     THEN "true" ELSE "false"]
    /\ stack' = SetTop([Top EXCEPT !.at = "children"])
    /\ UNCHANGED <<san, course, remote, dirs, pc, run, top, gets, snap, visited, raised>>

\* lines 437-440: children = content.children(), for a content with children
ListChildren ==
    /\ pc = "running" /\ stack # <<>> /\ Top.at = "children"
    /\ HasChildren(course.nodes, Top.node)
    /\ LET children == Children(course.nodes, Top.node)
       IN stack' = SetTop([Top EXCEPT !.list = children, !.i = 1,
                               !.has_single_child = Len(children) = 1,
                               !.listings = @ + 1,
                               !.at = "child_loop"])
    /\ UNCHANGED <<san, course, remote, files, dirs, pc, run, top, page, stats, gets,
                   writes, snap, visited, raised>>

\* lines 441-442: process_content(child, child_path, level + 1, has_single_child)
CallChild ==
    /\ pc = "running" /\ stack # <<>> /\ Top.at = "child_loop"
    /\ Top.i <= Len(Top.list)
    /\ stack' = Append(SetTop([Top EXCEPT !.i = @ + 1]),
                       Frame(Top.list[Top.i], Top.child_path, Top.has_single_child))
    /\ visited' = Append(visited, Top.list[Top.i])
    /\ UNCHANGED <<san, course, remote, files, dirs, pc, run, top, page, stats, gets,
                   writes, snap, raised>>

\* process_content returns: a leaf after its own steps, a container after
\* its last child
Return ==
    /\ pc = "running" /\ stack # <<>>
    /\ \/ Top.at = "children" /\ ~HasChildren(course.nodes, Top.node)
       \/ Top.at = "child_loop" /\ Top.i > Len(Top.list)
    /\ stack' = SubSeq(stack, 1, Len(stack) - 1)
    /\ UNCHANGED <<san, course, remote, files, dirs, pc, run, top, page, stats, gets,
                   writes, snap, visited, raised>>

(***************************************************************************)
(* The calls of the remote API made by process_content raise               *)
(***************************************************************************)
Raise(call) == Append(raised, [node |-> Top.node, call |-> call])

\* lines 395-401: content.children() raises, the handler of line 399 sets
\* has_single_child and child_path
AssignPathRaises ==
    /\ pc = "running" /\ stack # <<>> /\ Top.at = "path"
    /\ HasChildren(course.nodes, Top.node)
    /\ stack' = SetTop([Top EXCEPT
             !.has_single_child = FALSE,
             !.child_path = ContainerPath(Top.path, Node.title),
             !.listings = @ + 1,
             !.at = "attachments"])
    /\ raised' = Raise("children_396")
    /\ UNCHANGED <<san, course, remote, files, dirs, pc, run, top, page, stats, gets,
                   writes, snap, visited>>

\* lines 410-420: content.attachments() raises, the handler of line 419
\* passes and step 2 follows
ListAttachmentsRaises ==
    /\ pc = "running" /\ stack # <<>> /\ Top.at = "attachments"
    /\ stack' = SetTop([Top EXCEPT !.at = "body"])
    /\ raised' = Raise("attachments_411")
    /\ UNCHANGED <<san, course, remote, files, dirs, pc, run, top, page, stats, gets,
                   writes, snap, visited>>

\* lines 437-444: content.children() raises, the handler of line 443 passes
\* and process_content returns
ListChildrenRaises ==
    /\ pc = "running" /\ stack # <<>> /\ Top.at = "children"
    /\ HasChildren(course.nodes, Top.node)
    /\ stack' = SubSeq(stack, 1, Len(stack) - 1)
    /\ raised' = Raise("children_439")
    /\ UNCHANGED <<san, course, remote, files, dirs, pc, run, top, page, stats, gets,
                   writes, snap, visited>>

(***************************************************************************)
(* Inputs                                                                  *)
(***************************************************************************)
Text(scheme, file, query, amp) ==
    [scheme |-> scheme, dir |-> <<>>, file |-> file, query |-> query, amp |-> amp]

Tag(el, attr, quote, val, bb, bbFirst, closed) ==
    [el |-> el, attr |-> attr, quote |-> quote, val |-> val, bb |-> bb,
     bbFirst |-> bbFirst, closed |-> closed, alt |-> <<>>]

BlobAlt(id, json_ok, fileName, mimeType, alt) ==
    [json_ok |-> json_ok, fileName |-> fileName, mimeType |-> mimeType,
     alt |-> alt, id |-> id]

Blob(id, json_ok, fileName, mimeType) ==
    BlobAlt(id, json_ok, fileName, mimeType, <<"alt">>)

\* <a href="/bbcswebdav/x.pdf">Notes</a>
PdfLink == Tag("a", "href", "dq", Text("site", <<"x", ".pdf">>, 0, "none"),
               NoBlob, FALSE, TRUE)

\* <img src="/bbcswebdav/img.png">
Img == Tag("img", "src", "dq", Text("site", <<"img", ".png">>, 0, "none"),
           NoBlob, FALSE, FALSE)

\* <img src="/bbcswebdav/img.png?v=n">
ImgV(n) == Tag("img", "src", "dq", Text("site", <<"img", ".png">>, n, "none"),
               NoBlob, FALSE, FALSE)

\* <img src="/bbcswebdav/img.png?v=1&amp;w=2">
ImgAmp == Tag("img", "src", "dq", Text("site", <<"img", ".png">>, 1, "entity"),
              NoBlob, FALSE, FALSE)

\* <IMG SRC="/bbcswebdav/img.png?v=1">
UpperImg == Tag("img", "SRC", "dq", Text("site", <<"img", ".png">>, 1, "none"),
                NoBlob, FALSE, FALSE)

\* <img src="img.png">, neither absolute nor site-relative
RelImg == Tag("img", "src", "dq", Text("rel", <<"img", ".png">>, 0, "none"),
              NoBlob, FALSE, FALSE)

\* <img src="/bbcswebdav/%2F">: the last segment of the path decodes to "/"
ImgEsc == Tag("img", "src", "dq", Text("site", <<"%", "2", "F">>, 0, "none"),
             NoBlob, FALSE, FALSE)

\* <a href="x.pdf">, neither absolute nor site-relative
RelPdf == Tag("a", "href", "dq", Text("rel", <<"x", ".pdf">>, 0, "none"),
              NoBlob, FALSE, TRUE)

\* <a href='/bbcswebdav/d.docx'>
DocLinkSq == Tag("a", "href", "sq", Text("site", <<"d", ".docx">>, 0, "none"),
                 NoBlob, FALSE, TRUE)

\* <a href="/bbcswebdav/d.docx" data-bbfile="{fileName: d.docx, ...}">d</a>
AttDoc == Tag("a", "href", "dq", Text("site", <<"d", ".docx">>, 0, "none"),
              Blob(1, TRUE, <<"d", ".docx">>, "application/msword"), FALSE, TRUE)

\* <a href="/bbcswebdav/p.png" data-bbfile="{fileName: p.png, mimeType: image/png}">p</a>
AttImg == Tag("a", "href", "dq", Text("site", <<"p", ".png">>, 0, "none"),
              Blob(2, TRUE, <<"p", ".png">>, "image/png"), FALSE, TRUE)

\* <a data-bbfile="{fileName: x.pdf, ...}" href="/bbcswebdav/x.pdf">x</a>
AttPdfBbFirst == Tag("a", "href", "dq", Text("site", <<"x", ".pdf">>, 0, "none"),
                     Blob(3, TRUE, <<"x", ".pdf">>, "application/pdf"), TRUE, TRUE)

\* <a href="/bbcswebdav/i1.png" data-bbfile="{fileName: i1.png, mimeType:
\* image/png, alternativeText: x\q}">p</a>
AttImgAlt == Tag("a", "href", "dq", Text("site", <<"i1", ".png">>, 0, "none"),
                 BlobAlt(4, TRUE, <<"i1", ".png">>, "image/png", <<"x", "\\", "q">>),
                 FALSE, TRUE)

\* <a href="/bbcswebdav/i2.png" data-bbfile="{fileName: p\q.png, mimeType:
\* image/png, alternativeText: x\q}">p</a>
AttImgBad == Tag("a", "href", "dq", Text("site", <<"i2", ".png">>, 0, "none"),
                 BlobAlt(5, TRUE, <<"p", "\\", "q", ".png">>, "image/png",
                         <<"x", "\\", "q">>),
                 FALSE, TRUE)

\* <a href="/bbcswebdav/p.png?v=1&amp;w=2" data-bbfile="{fileName: p.png,
\* mimeType: image/png}">p</a>
AttImgAmp == Tag("a", "href", "dq", Text("site", <<"p", ".png">>, 1, "entity"),
                 Blob(6, TRUE, <<"p", ".png">>, "image/png"), FALSE, TRUE)

\* the tags a document body is made of
TagMenu == {PdfLink, ImgV(1), ImgV(2), ImgAmp, UpperImg, RelImg, RelPdf, ImgEsc,
            DocLinkSq, AttDoc, AttImg, AttImgAlt, AttImgBad, AttImgAmp,
            AttPdfBbFirst}

\* the bodies of at most MaxTags tags
Bodies == UNION {[1..n -> TagMenu] : n \in 1..MaxTags}

\* what a content holds besides its title and its place in the tree
NodeKinds ==
    { [atts |-> <<>>, body |-> <<>>, handler |-> FolderHandler],
      [atts |-> <<<<"x", ".pdf">>>>, body |-> <<>>, handler |-> FolderHandler],
      [atts |-> <<>>, body |-> <<PdfLink, Img>>, handler |-> DocumentHandler] }

TitleOf(n) == IF n % 2 = 1 THEN <<"A">> ELSE <<"B">>

\* every tree of n contents: the parent of content k is an earlier content
\* or 0 (top level)
TreesOf(n) ==
    { [k \in 1..n |-> [title |-> TitleOf(k), parent |-> par[k], atts |-> kind[k].atts,
                       body |-> kind[k].body, handler |-> kind[k].handler]] :
        par \in {f \in [1..n -> 0..(n - 1)] : \A k \in 1..n : f[k] < k},
        kind \in [1..n -> NodeKinds] }

Trees == UNION {TreesOf(n) : n \in 1..MaxNodes}

RerunTrees == UNION {TreesOf(n) : n \in 1..MaxRerunNodes}

SanIdle == [input |-> <<>>, pc |-> "off", out |-> NoName, again |-> NoName]

\* the state before the first run: an empty output directory
MirrorStart ==
    /\ remote = <<>> /\ files = <<>> /\ dirs = Prefixes(Cwd)
    /\ pc = "idle" /\ run = 0 /\ top = 1 /\ stack = <<>> /\ page = NoPage
    /\ stats = ZeroStats /\ gets = <<>> /\ writes = <<>>
    /\ snap = [files |-> <<>>, dirs |-> Prefixes(Cwd)]
    /\ visited = <<>> /\ raised = <<>>

\* one run of download_course_complete over one course
Init ==
    /\ san = SanIdle
    /\ course \in [nodes : Trees, save_html_pages : BOOLEAN, runs : {1}]
    /\ MirrorStart

\* two runs of download_course_complete over one course, the second over
\* the output directory the first has left
RerunInit ==
    /\ san = SanIdle
    /\ course \in [nodes : RerunTrees, save_html_pages : BOOLEAN, runs : {2}]
    /\ MirrorStart

Next ==
    \/ StartRun \/ CallTop \/ FinishRun
    \/ AssignPath \/ ListAttachments \/ DownloadAttachment
    \/ ExtractPdfLinks \/ DownloadEmbeddedPdf
    \/ SkipHtmlPage \/ SaveHtmlBegin \/ SaveHtmlResource \/ SaveHtmlWrite
    \/ ListChildren \/ CallChild \/ Return

Spec == Init /\ [][Next]_vars

\* one run over a course of one document, with page capture
PageInit ==
    /\ san = SanIdle
    /\ course \in [nodes : {<<[title |-> <<"T">>, parent |-> 0, atts |-> <<>>,
                                body |-> b, handler |-> DocumentHandler]>> :
                                b \in Bodies},
                    save_html_pages : {TRUE}, runs : {1}]
    /\ MirrorStart

PageNext ==
    \/ StartRun \/ CallTop \/ FinishRun
    \/ AssignPath \/ ListAttachments
    \/ ExtractPdfLinks \/ DownloadEmbeddedPdf
    \/ SaveHtmlBegin \/ SaveHtmlResource \/ SaveHtmlWrite
    \/ Return

SpecPage == PageInit /\ [][PageNext]_vars

SpecRerun == RerunInit /\ [][Next]_vars

\* the contents of the deep trees: with or without an attachment, no body
DeepKinds == {k \in NodeKinds : k.body = <<>>}

\* every tree of n contents without bodies
DeepTreesOf(n) ==
    { [k \in 1..n |-> [title |-> TitleOf(k), parent |-> par[k], atts |-> kind[k].atts,
                       body |-> kind[k].body, handler |-> kind[k].handler]] :
        par \in {f \in [1..n -> 0..(n - 1)] : \A k \in 1..n : f[k] < k},
        kind \in [1..n -> DeepKinds] }

DeepTrees == UNION {DeepTreesOf(n) : n \in 1..MaxDeepNodes}

\* one run, without page capture, over a course of up to MaxDeepNodes contents
DeepInit ==
    /\ san = SanIdle
    /\ course \in [nodes : DeepTrees, save_html_pages : {FALSE}, runs : {1}]
    /\ MirrorStart

DeepNext ==
    \/ StartRun \/ CallTop \/ FinishRun
    \/ AssignPath \/ ListAttachments \/ DownloadAttachment
    \/ ExtractPdfLinks
    \/ ListChildren \/ CallChild \/ Return

SpecDeep == DeepInit /\ [][DeepNext]_vars

\* one run over a course in which content.children() and
\* content.attachments() may raise
FaultKinds ==
    { [atts |-> <<>>, body |-> <<>>, handler |-> FolderHandler],
      [atts |-> <<<<"x", ".pdf">>, <<"y", ".pdf">>>>, body |-> <<PdfLink>>,
       handler |-> DocumentHandler] }

FaultTreesOf(n) ==
    { [k \in 1..n |-> [title |-> TitleOf(k), parent |-> par[k], atts |-> kind[k].atts,
                       body |-> kind[k].body, handler |-> kind[k].handler]] :
        par \in {f \in [1..n -> 0..(n - 1)] : \A k \in 1..n : f[k] < k},
        kind \in [1..n -> FaultKinds] }

FaultTrees == UNION {FaultTreesOf(n) : n \in 1..MaxFaultNodes}

FaultInit ==
    /\ san = SanIdle
    /\ course \in [nodes : FaultTrees, save_html_pages : {TRUE}, runs : {1}]
    /\ MirrorStart

FaultNext ==
    \/ StartRun \/ CallTop \/ FinishRun
    \/ AssignPath \/ AssignPathRaises
    \/ ListAttachments \/ ListAttachmentsRaises \/ DownloadAttachment
    \/ ExtractPdfLinks \/ DownloadEmbeddedPdf
    \/ SaveHtmlBegin \/ SaveHtmlWrite
    \/ ListChildren \/ ListChildrenRaises \/ CallChild \/ Return

SpecFaulty == FaultInit /\ [][FaultNext]_vars

(***************************************************************************)
(* download_with_logging of esprit_debug_downloader.py (lines 59-156).     *)
(* The remote calls content.attachments(), att.download(path) and          *)
(* content.children() either return or raise.  att.download is code of the *)
(* blackboard package: only its return or its exception is modelled, not   *)
(* what it puts on disk.  pc = "raised" says the exception of a call has   *)
(* left download_with_logging.                                             *)
(***************************************************************************)
FileHandler == "resource/x-bb-file"

AssignmentHandler == "resource/x-bb-assignment"

\* the handlers whose attachments are asked for (line 104)
FileTypes == {FileHandler, AssignmentHandler}

LogZeroStats ==
    [folders |-> 0, files |-> 0, documents |-> 0, assignments |-> 0, other |-> 0,
     downloaded |-> 0, skipped |-> 0, errors |-> 0]

\* a call of process_content(content, path), lines 83-134
LogFrame(n, path) ==
    [node |-> n, path |-> path, at |-> "count", list |-> <<>>, i |-> 0]

\* lines 63-81
LogStartRun ==
    /\ pc = "idle" /\ run < course.runs
    /\ pc' = "running" /\ run' = run + 1 /\ top' = 1
    /\ stats' = LogZeroStats /\ gets' = <<>> /\ writes' = <<>> /\ visited' = <<>>
    /\ raised' = <<>>
    /\ snap' = [files |-> files, dirs |-> dirs]
    /\ UNCHANGED <<san, course, remote, files, dirs, stack, page>>

\* lines 138-139: process_content(content, base_path)
LogCallTop ==
    /\ pc = "running" /\ stack = <<>>
    /\ top <= Len(Children(course.nodes, 0))
    /\ stack' = <<LogFrame(Children(course.nodes, 0)[top], base_path)>>
    /\ top' = top + 1
    /\ visited' = Append(visited, Children(course.nodes, 0)[top])
    /\ UNCHANGED <<san, course, remote, files, dirs, pc, run, page, stats, gets,
                   writes, snap, raised>>

\* lines 142-156: the statistics are printed
LogFinishRun ==
    /\ pc = "running" /\ stack = <<>>
    /\ top > Len(Children(course.nodes, 0))
    /\ pc' = "idle"
    /\ UNCHANGED <<san, course, remote, files, dirs, run, top, stack, page, stats,
                   gets, writes, snap, visited, raised>>

\* lines 86-101: the content is counted by its kind
LogCount ==
    /\ pc = "running" /\ stack # <<>> /\ Top.at = "count"
    /\ stats' = IF HasChildren(course.nodes, Top.node)
                THEN [stats EXCEPT !.folders = @ + 1]
                ELSE IF Node.handler = FileHandler THEN [stats EXCEPT !.files = @ + 1]
                ELSE IF Node.handler = DocumentHandler
                     THEN [stats EXCEPT !.documents = @ + 1]
                ELSE IF Node.handler = AssignmentHandler
                     THEN [stats EXCEPT !.assignments = @ + 1]
                ELSE [stats EXCEPT !.other = @ + 1]
    /\ stack' = SetTop([Top EXCEPT !.at = "log_attachments"])
    /\ UNCHANGED <<san, course, remote, files, dirs, pc, run, top, page, gets,
                   writes, snap, visited, raised>>

\* lines 104-126: content.attachments() is called for a file type and returns
\* the attachments or raises; the exception is caught at line 121
LogAttachments ==
    /\ pc = "running" /\ stack # <<>> /\ Top.at = "log_attachments"
    /\ \/ /\ Node.handler \in FileTypes /\ Node.atts # <<>>
          /\ stats' = stats
          /\ stack' = SetTop([Top EXCEPT !.list = Node.atts, !.i = 1,
                                  !.at = "log_att_loop"])
       \/ /\ Node.handler \notin FileTypes \/ Node.atts = <<>>
          /\ stats' = [stats EXCEPT !.skipped = @ + 1]
          /\ stack' = SetTop([Top EXCEPT !.at = "log_children"])
       \/ /\ Node.handler \in FileTypes
          /\ stats' = [stats EXCEPT !.errors = @ + 1]
          /\ stack' = SetTop([Top EXCEPT !.at = "log_children"])
    /\ UNCHANGED <<san, course, remote, files, dirs, pc, run, top, page, gets,
                   writes, snap, visited, raised>>

\* lines 109-117: att.download(path) returns or raises; the exception is
\* caught at line 115
LogDownload ==
    /\ pc = "running" /\ stack # <<>> /\ Top.at = "log_att_loop"
    /\ \/ stats' = [stats EXCEPT !.downloaded = @ + 1]
       \/ stats' = [stats EXCEPT !.errors = @ + 1]
    /\ stack' = SetTop([Top EXCEPT !.i = @ + 1,
           !.at = IF Top.i = Len(Top.list) THEN "log_children" ELSE "log_att_loop"])
    /\ UNCHANGED <<san, course, remote, files, dirs, pc, run, top, page, gets,
                   writes, snap, visited, raised>>

\* lines 129-132: content.children() returns the children
LogListChildren ==
    /\ pc = "running" /\ stack # <<>> /\ Top.at = "log_children"
    /\ HasChildren(course.nodes, Top.node)
    /\ stack' = SetTop([Top EXCEPT !.list = Children(course.nodes, Top.node), !.i = 1,
                            !.at = "log_child_loop"])
    /\ UNCHANGED <<san, course, remote, files, dirs, pc, run, top, page, stats, gets,
                   writes, snap, visited, raised>>

\* line 130: content.children() raises; no call of process_content and no
\* caller of it has a handler (lines 133-134, 138-139), so the exception
\* leaves download_with_logging
LogListChildrenRaises ==
    /\ pc = "running" /\ stack # <<>> /\ Top.at = "log_children"
    /\ HasChildren(course.nodes, Top.node)
    /\ stack' = <<>> /\ pc' = "raised"
    /\ UNCHANGED <<san, course, remote, files, dirs, run, top, page, stats, gets,
                   writes, snap, visited, raised>>

\* lines 133-134: process_content(child, child_path, level + 1)
LogCallChild ==
    /\ pc = "running" /\ stack # <<>> /\ Top.at = "log_child_loop"
    /\ Top.i <= Len(Top.list)
    /\ stack' = Append(SetTop([Top EXCEPT !.i = @ + 1]),
                       LogFrame(Top.list[Top.i],
                                Append(Top.path, title_safe(Node.title))))
    /\ visited' = Append(visited, Top.list[Top.i])
    /\ UNCHANGED <<san, course, remote, files, dirs, pc, run, top, page, stats, gets,
                   writes, snap, raised>>

\* process_content returns
LogReturn ==
    /\ pc = "running" /\ stack # <<>>
    /\ \/ Top.at = "log_children" /\ ~HasChildren(course.nodes, Top.node)
       \/ Top.at = "log_child_loop" /\ Top.i > Len(Top.list)
    /\ stack' = SubSeq(stack, 1, Len(stack) - 1)
    /\ UNCHANGED <<san, course, remote, files, dirs, pc, run, top, page, stats, gets,
                   writes, snap, visited, raised>>

\* what a content of the logged courses holds
LogKinds ==
    { [atts |-> <<>>, body |-> <<>>, handler |-> FolderHandler],
      [atts |-> <<<<"x", ".pdf">>>>, body |-> <<>>, handler |-> FileHandler],
      [atts |-> <<>>, body |-> <<PdfLink>>, handler |-> DocumentHandler] }

LogTreesOf(n) ==
    { [k \in 1..n |-> [title |-> TitleOf(k), parent |-> par[k], atts |-> kind[k].atts,
                       body |-> kind[k].body, handler |-> kind[k].handler]] :
        par \in {f \in [1..n -> 0..(n - 1)] : \A k \in 1..n : f[k] < k},
        kind \in [1..n -> LogKinds] }

LogTrees == UNION {LogTreesOf(n) : n \in 1..MaxLogNodes}

LogInit ==
    /\ san = SanIdle
    /\ course \in [nodes : LogTrees, save_html_pages : {FALSE}, runs : {1}]
    /\ MirrorStart

LogNext ==
    \/ LogStartRun \/ LogCallTop \/ LogFinishRun
    \/ LogCount \/ LogAttachments \/ LogDownload
    \/ LogListChildren \/ LogListChildrenRaises \/ LogCallChild \/ LogReturn

SpecLogging == LogInit /\ [][LogNext]_vars

(***************************************************************************)
(* Sanitizer harness: one name is drawn, then sanitized by either          *)
(* expression; the result of sanitize_filename is sanitized once more.     *)
(***************************************************************************)
SanAlphabet == {"%", "2", "5", "F", "/", "x"}

SanNames == UNION {[1..n -> SanAlphabet] : n \in 0..MaxLen}

EmptyCourse == [nodes |-> <<>>, save_html_pages |-> FALSE, runs |-> 0]

SanInit ==
    /\ san \in [input : SanNames, pc : {"start"}, out : {NoName}, again : {NoName}]
    /\ course = EmptyCourse
    /\ MirrorStart

\* sanitize_filename(input)
SanitizeCall ==
    /\ san.pc = "start"
    /\ san' = [san EXCEPT !.pc = "sanitized", !.out = sanitize_filename(san.input)]

\* sanitize_filename(sanitize_filename(input))
SanitizeAgain ==
    /\ san.pc = "sanitized"
    /\ san' = [san EXCEPT !.pc = "resanitized", !.again = sanitize_filename(san.out)]

\* the filename_safe expression of download_pdf on input
PdfSafeCall ==
    /\ san.pc = "start"
    /\ san' = [san EXCEPT !.pc = "pdf_safe", !.out = pdf_filename_safe(san.input)]

SanNext ==
    /\ SanitizeCall \/ SanitizeAgain \/ PdfSafeCall
    /\ UNCHANGED mirror_vars

SpecSanitize == SanInit /\ [][SanNext]_vars

(***************************************************************************)
(* sanitize_filename of scraper.py (lines 35-39).  A name is a sequence of *)
(* characters.                                                             *)
(***************************************************************************)
\* the characters \s matches, of the ones the model writes
Whitespace == {" ", "\t"}

\* name[:100] (line 39)
NameLimit == 100

\* re.sub(r'[<>:"/\\|?*]', '_', name) (line 37)
ReplaceIllegal(name) ==
    [i \in 1..Len(name) |-> IF name[i] \in IllegalChars THEN "_" ELSE name[i]]

\* re.sub(r'\s+', ' ', name) (line 38): every run of whitespace becomes one
\* space; first is the sequence of the positions that are no whitespace or
\* begin a run of whitespace
CollapseWhitespace(name) ==
    LET first == SelectSeq([i \in 1..Len(name) |-> i],
                           LAMBDA i : \/ name[i] \notin Whitespace
                                      \/ i = 1
                                      \/ name[i - 1] \notin Whitespace)
    IN [k \in 1..Len(first) |->
           IF name[first[k]] \in Whitespace THEN " " ELSE name[first[k]]]

\* str.strip() (line 38): no whitespace at either end
Strip(name) ==
    LET solid == {i \in 1..Len(name) : name[i] \notin Whitespace}
    IN IF solid = {} THEN <<>>
       ELSE SubSeq(name, CHOOSE i \in solid : \A j \in solid : i <= j,
                         CHOOSE i \in solid : \A j \in solid : i >= j)

\* name[:100] (line 39)
Truncate(name) == SubSeq(name, 1, IF Len(name) < NameLimit THEN Len(name) ELSE NameLimit)

\* sanitize_filename of scraper.py (lines 35-39)
scraper_sanitize_filename(name) == Truncate(Strip(CollapseWhitespace(ReplaceIllegal(name))))

ScraperAlphabet == {"a", " ", "\t", "/"}

\* k letters
Letters(k) == [i \in 1..k |-> "a"]

\* short names, and names of about NameLimit characters: letters up to a
\* few characters before the limit, then any tail
ScraperNames ==
    { Letters(k) \o tail :
        k \in {0, NameLimit - 2, NameLimit - 1, NameLimit},
        tail \in UNION {[1..n -> ScraperAlphabet] : n \in 0..MaxTail} }

ScraperInit ==
    /\ san \in [input : ScraperNames, pc : {"start"}, out : {NoName}, again : {NoName}]
    /\ course = EmptyCourse
    /\ MirrorStart

\* sanitize_filename(input)
ScraperSanitizeCall ==
    /\ san.pc = "start"
    /\ san' = [san EXCEPT !.pc = "sanitized", !.out = scraper_sanitize_filename(san.input)]

\* sanitize_filename(sanitize_filename(input))
ScraperSanitizeAgain ==
    /\ san.pc = "sanitized"
    /\ san' = [san EXCEPT !.pc = "resanitized",
                          !.again = scraper_sanitize_filename(san.out)]

ScraperSanNext ==
    /\ ScraperSanitizeCall \/ ScraperSanitizeAgain
    /\ UNCHANGED mirror_vars

SpecScraperSanitize == ScraperInit /\ [][ScraperSanNext]_vars

(***************************************************************************)
(* scraper.py: download_module_recursive                                   *)
(***************************************************************************)
\* most modules and folders of a scraped module tree
MaxModules == 3

\* the name of module or folder k as the page shows it
ModuleName(k) == <<"L", " ", "D", ToString(k)>>

\* the trees under a module: node 1 is the module the caller hands over,
\* every other node is a folder inside an earlier one; items is the number
\* of content links directly inside the node
ModuleTreesOf(n) ==
    { [k \in 1..n |-> [title |-> ModuleName(k), parent |-> par[k], items |-> its[k]]] :
        par \in {f \in [1..n -> 0..(n - 1)] :
                    f[1] = 0 /\ \A k \in 2..n : f[k] >= 1 /\ f[k] < k},
        its \in [1..n -> 0..1] }

ModuleTrees == UNION {ModuleTreesOf(n) : n \in 1..MaxModules}

\* DOWNLOAD_DIR / course / module, made by the caller (lines 666-667, 689-690)
ModuleDir == Cwd \o <<<<"downloads">>, <<"course">>, scraper_sanitize_filename(ModuleName(1))>>

\* the locals of a call of download_module_recursive(page, module, save_dir)
ModuleFrame(n, save_dir) ==
    [node |-> n, save_dir |-> save_dir, at |-> "expand", items |-> 0,
     subfolders |-> <<>>, i |-> 1]

\* the exception reaches the handler of lines 330-331: the call returns
ModuleAbort ==
    /\ stack' = SubSeq(stack, 1, Len(stack) - 1)
    /\ pc' = IF Len(stack) = 1 THEN "done" ELSE pc

\* lines 668, 692: download_module_recursive(page, item, subdir)
StartModule ==
    /\ pc = "idle" /\ run = 0
    /\ pc' = "running" /\ run' = 1
    /\ dirs' = dirs \cup Prefixes(ModuleDir)
    /\ stack' = <<ModuleFrame(1, ModuleDir)>>
    /\ visited' = <<[kind |-> "call", node |-> 1]>>
    /\ UNCHANGED <<san, course, remote, files, top, page, stats, gets, writes, snap,
                   raised>>

\* line 298: expand_module returns the items and the subfolders of the
\* module, or two empty lists when anything in it failed (lines 283-284)
ExpandModule ==
    /\ pc = "running" /\ stack # <<>> /\ Top.at = "expand"
    /\ \E found \in BOOLEAN :
          LET items == IF found THEN Node.items ELSE 0
              subfolders == IF found THEN Children(course.nodes, Top.node) ELSE <<>>
          IN /\ stack' = SetTop([Top EXCEPT !.items = items,
                                      !.subfolders = subfolders, !.at = "items"])
             /\ visited' = Append(visited, [kind |-> "expand", node |-> Top.node,
                                            subfolders |-> subfolders])
    /\ UNCHANGED <<san, course, remote, files, dirs, pc, run, top, page, stats, gets,
                   writes, snap, raised>>

\* line 298 inside a call made at lines 314-317: the timeout of wait_for
\* cancels the call while it awaits expand_module, whose handler (line 283)
\* does not catch the cancellation
ExpandModuleCancelled ==
    /\ pc = "running" /\ Len(stack) >= 2 /\ Top.at = "expand"
    /\ raised' = Raise("expand_module_298")
    /\ ModuleAbort
    /\ UNCHANGED <<san, course, remote, files, dirs, run, top, page, stats, gets,
                   writes, snap, visited>>

\* lines 301-306: scrape_content_item for the next direct item; whatever it
\* raises is dropped at line 305
ScrapeContentItem ==
    /\ pc = "running" /\ stack # <<>> /\ Top.at = "items"
    /\ Top.i <= Top.items
    /\ visited' = Append(visited, [kind |-> "item", node |-> Top.node])
    /\ \E ok \in BOOLEAN :
          raised' = IF ok THEN raised ELSE Raise("scrape_content_item_304")
    /\ stack' = SetTop([Top EXCEPT !.i = @ + 1])
    /\ UNCHANGED <<san, course, remote, files, dirs, pc, run, top, page, stats, gets,
                   writes, snap>>

\* line 309: the loop over the direct items is over, the loop over the
\* subfolders begins
ItemsDone ==
    /\ pc = "running" /\ stack # <<>> /\ Top.at = "items"
    /\ Top.i > Top.items
    /\ stack' = SetTop([Top EXCEPT !.at = "folders", !.i = 1])
    /\ UNCHANGED <<san, course, remote, files, dirs, pc, run, top, page, stats, gets,
                   writes, snap, visited, raised>>

\* save_dir / sanitize_filename(folder['name']) (line 311)
Subdir ==
    Append(Top.save_dir, scraper_sanitize_filename(course.nodes[Top.subfolders[Top.i]].title))

\* lines 310-312: the directory of the next subfolder is made, or mkdir raises
MakeSubdir ==
    /\ pc = "running" /\ stack # <<>> /\ Top.at = "folders"
    /\ Top.i <= Len(Top.subfolders)
    /\ \/ /\ dirs' = dirs \cup {Subdir}
          /\ stack' = SetTop([Top EXCEPT !.at = "call"])
          /\ UNCHANGED <<pc, raised>>
       \/ /\ raised' = Raise("mkdir_312")
          /\ ModuleAbort
          /\ UNCHANGED dirs
    /\ UNCHANGED <<san, course, remote, files, run, top, page, stats, gets, writes,
                   snap, visited>>

\* lines 314-317: download_module_recursive(page, folder, subdir, ...) under
\* wait_for
CallSubfolder ==
    /\ pc = "running" /\ stack # <<>> /\ Top.at = "call"
    /\ stack' = Append(SetTop([Top EXCEPT !.at = "back"]),
                       ModuleFrame(Top.subfolders[Top.i], Subdir))
    /\ visited' = Append(visited, [kind |-> "call", node |-> Top.subfolders[Top.i]])
    /\ UNCHANGED <<san, course, remote, files, dirs, pc, run, top, page, stats, gets,
                   writes, snap, raised>>

\* lines 318-328: the call for the subfolder is over (returned, or timed
\* out, lines 318-321); before the next subfolder the page goes back to the
\* course and the module is expanded again, or page.goto raises
GoBack ==
    /\ pc = "running" /\ stack # <<>> /\ Top.at = "back"
    /\ \/ /\ stack' = SetTop([Top EXCEPT !.at = "folders", !.i = @ + 1])
          /\ UNCHANGED <<pc, raised>>
       \/ /\ Top.i < Len(Top.subfolders)
          /\ raised' = Raise("goto_325")
          /\ ModuleAbort
    /\ UNCHANGED <<san, course, remote, files, dirs, run, top, page, stats, gets,
                   writes, snap, visited>>

\* download_module_recursive returns after the last subfolder
ModuleReturn ==
    /\ pc = "running" /\ stack # <<>> /\ Top.at = "folders"
    /\ Top.i > Len(Top.subfolders)
    /\ ModuleAbort
    /\ UNCHANGED <<san, course, remote, files, dirs, run, top, page, stats, gets,
                   writes, snap, visited, raised>>

ModuleInit ==
    /\ san = SanIdle
    /\ course \in [nodes : ModuleTrees, save_html_pages : {FALSE}, runs : {1}]
    /\ MirrorStart

ModuleNext ==
    \/ StartModule \/ ExpandModule \/ ExpandModuleCancelled
    \/ ScrapeContentItem \/ ItemsDone \/ MakeSubdir \/ CallSubfolder
    \/ GoBack \/ ModuleReturn

SpecModule == ModuleInit /\ [][ModuleNext]_vars

(***************************************************************************)
(* Claims about the mirror                                                 *)
(***************************************************************************)
NoDupUrls(list) ==
    \A i, j \in 1..Len(list) : i # j => list[i].url # list[j].url

NoDupPaths(w) == \A i, j \in 1..Len(w) : i # j => w[i] # w[j]

\* the number of structured attachment markers (data-bbfile) of a body
MarkerCount(body) == Cardinality({i \in 1..Len(body) : HasBlob(body[i])})

\* the body the latest call of save_html_page was given
PageBody == course.nodes[page.node].body

\* the body of the HTML file the latest call of save_html_page has written
SavedBody == files[page.download_location].body

\* the tags of the body whose attribute, unescaped, is this URL
RefsTo(body, url) == {i \in 1..Len(body) : html_unescape(body[i].val) = url}

AllAnswersOk == \A u \in DOMAIN remote : remote[u] = "200"

\* C1: in a run no path is written twice, no path that held a file when the
\* run began is written, and every file that was there when the run began
\* is still there with the same content
C1_WriteOnce ==
    /\ NoDupPaths(writes)
    /\ \A i \in 1..Len(writes) : writes[i] \notin DOMAIN snap.files
    /\ \A p \in DOMAIN snap.files : p \in DOMAIN files /\ files[p] = snap.files[p]

\* a run in which every request was answered 200 and yet fewer files were
\* written than requests sent: a download met a file written earlier in the
\* run and left it alone
C1_Witness ==
    run = 1 /\ pc = "idle" /\ AllAnswersOk /\ writes # <<>> /\ Len(gets) > Len(writes)

\* C2: a second run, after a first run in which every fetch succeeded,
\* sends no GET request
C2_SecondRunNoGet ==
    (run = 2 /\ AllAnswersOk) => gets = <<>>

\* C3: during and after the second run the disk is what the first run left
C3_SecondRunSameDisk ==
    run = 2 => (files = snap.files /\ dirs = snap.dirs)

\* the second run is over, it has sent requests, and files are on disk
C3_Witness ==
    run = 2 /\ pc = "idle" /\ DOMAIN files # {} /\ gets # <<>>

\* C4: the files of a leaf that is the only child of a container without
\* artifacts of its own go into the directory the container was handed
C4_SingleChildFlattened ==
    \A k \in 2..Len(stack) :
        LET leaf == stack[k]
            container == stack[k - 1]
        IN (/\ ~HasChildren(course.nodes, leaf.node)
            /\ Len(Children(course.nodes, container.node)) = 1
            /\ course.nodes[container.node].atts = <<>>
            /\ course.nodes[container.node].body = <<>>
            /\ leaf.at # "path"
            /\ \E i \in 1..Len(writes) : Parent(writes[i]) = leaf.child_path)
           => Len(leaf.child_path) = Len(container.path)

C8_FailedKeptOthersRewritten ==
    page.ret = "true" =>
        \A k \in 1..Len(page.resources) :
            LET refs == RefsTo(PageBody, page.resources[k].url)
                new_url == LocalLink(page.filename_base, page.results[k].local_path)
            IN /\ page.results[k].status = "404"
                    => \A i \in refs : SavedBody[i] = PageBody[i]
               /\ page.results[k].status = "200"
                    => \A i \in refs : SavedBody[i].val = new_url

\* a plain hyperlink to a site-relative PDF
IsPlainPdfLink(t) ==
    /\ t.el = "a" /\ t.attr = "href" /\ ~HasBlob(t)
    /\ t.val.scheme = "site" /\ EndsWith(t.val.file, ".pdf")

\* C9: when the fetch of a plain site-relative PDF hyperlink is answered
\* 200, its bytes are in a local file and the href of the saved document
\* reads <basename>_files/<file>
C9_PdfLinkRewritten ==
    page.ret = "true" =>
        \A i \in 1..Len(PageBody) :
            LET t == PageBody[i]
                target == SiteJoin(html_unescape(t.val))
            IN (IsPlainPdfLink(t) /\ target \in DOMAIN remote /\ remote[target] = "200")
               => /\ \E p \in DOMAIN files : files[p] = Bytes(target)
                  /\ SavedBody[i].val = LocalLink(page.filename_base, t.val.file)

\* two URLs that differ only in the query string
DifferByQuery(u, v) ==
    /\ u.scheme = v.scheme /\ u.dir = v.dir /\ u.file = v.file
    /\ (u.query # v.query \/ u.amp # v.amp)

\* C10: of two references whose URLs differ only in the query string the
\* first is fetched and written, the second is not fetched, and in the saved
\* document every occurrence of either carries the one local path
C10_SameNameFetchedOnce ==
    page.ret = "true" =>
        \A j, k \in 1..Len(page.resources) :
            (/\ j < k
             /\ DifferByQuery(page.resources[j].url, page.resources[k].url)
             /\ page.resources[j].filename = NoName
             /\ page.resources[k].filename = NoName
             /\ page.results[j].status = "200")
            => /\ ~page.results[k].sent
               /\ page.results[k].local_path = page.results[j].local_path
               /\ \A i \in RefsTo(PageBody, page.resources[j].url)
                           \cup RefsTo(PageBody, page.resources[k].url) :
                      SavedBody[i].val =
                          LocalLink(page.filename_base, page.results[j].local_path)

\* the frames of a container with one child, of that child when it is a
\* container with two children, and of one of the two
NestedAt(k) ==
    /\ k >= 3 /\ k <= Len(stack)
    /\ Len(Children(course.nodes, stack[k - 2].node)) = 1
    /\ Len(Children(course.nodes, stack[k - 1].node)) = 2

\* <outer container directory>/A for the frames of NestedAt(k)
NestedDir(k) ==
    Append(Append(stack[k - 2].path, title_safe(course.nodes[stack[k - 2].node].title)),
           title_safe(course.nodes[stack[k - 1].node].title))

IsUnder(p, d) == Len(p) > Len(d) /\ SubSeq(p, 1, Len(d)) = d

\* C11: when a container's only child A is a container with children B and
\* C, B and C are handed <outer container directory>/A and every file written
\* while B or C is being processed lies under that directory
C11_NestedUnderA ==
    [][\A k \in 3..Len(stack) :
          (NestedAt(k) /\ k = Len(stack))
          => /\ stack[k].path = NestedDir(k)
             /\ writes' # writes => IsUnder(writes'[Len(writes')], NestedDir(k))]_vars

\* B or C is being processed and a file of it is on disk, right in
\* <outer container directory>/A
C11_Witness ==
    /\ NestedAt(Len(stack))
    /\ ~HasChildren(course.nodes, Top.node)
    /\ writes # <<>> /\ Parent(writes[Len(writes)]) = NestedDir(Len(stack))
    /\ Top.at = "body"

\* the resource save_html_page is about to hand to download_resource
PageResource == page.resources[page.i]

\* the URL download_resource requests for a reference (lines 166-167)
Resolved(url) == IF url.scheme = "site" THEN SiteJoin(url) ELSE url

\* filename_safe of download_resource (lines 172-183) for that resource
PageFilenameSafe ==
    sanitize_filename(ResourceFilename(Resolved(PageResource.url), PageResource.filename))

\* download_location of download_resource (line 184) for that resource
PageTarget == Append(page.resources_folder, PageFilenameSafe)

\* save_html_page is about to call download_resource
AtResource == pc = "running" /\ stack # <<>> /\ Top.at = "resources"

AtPdfLink == pc = "running" /\ stack # <<>> /\ Top.at = "pdf_loop"

\* a URL that neither is absolute (http, https) nor starts with "/"
Unresolvable(url) == url.scheme \notin {"http", "site"}

FetchFails ==
    /\ Len(gets') = Len(gets) + 1
    /\ remote'[gets'[Len(gets')]] # "200"

\* C14: a fetch answered with another status than 200, or ended by a
\* transport exception, writes nothing and gives a failure result; the call
\* of process_content goes on with the next reference of the content, and
\* when the page is written every resource of the body has been attempted
C14_FailureIsLocal ==
    [][/\ FetchFails
          => /\ files' = files /\ dirs' = dirs /\ writes' = writes /\ stats' = stats
             /\ pc' = "running" /\ Len(stack') = Len(stack)
             /\ Top.at \in {"att_loop", "pdf_loop"} => Top'.i = Top.i + 1
             /\ Top.at = "resources"
                => /\ page'.i = page.i + 1
                   /\ page'.results[Len(page'.results)].local_path = NoName
                   /\ page'.modified_body = page.modified_body
       /\ (stack' # <<>> /\ Top'.at = "write")
          => Len(page'.results) = Len(page'.resources)]_vars

\* a fetch of the body has failed and a later reference of the same body
\* has been attempted all the same
C14_Witness ==
    /\ page.node # 0
    /\ \E k \in 1..Len(page.results) :
          /\ k < Len(page.results)
          /\ page.results[k].sent /\ page.results[k].status \in {"404", "exc"}
          /\ page.results[k + 1].sent
    /\ \E u \in DOMAIN remote : remote[u] = "exc"

\* process_content is about to call save_html_page (lines 432-433)
AtCapture ==
    /\ pc = "running" /\ stack # <<>> /\ Top.at = "html"
    /\ course.save_html_pages /\ Node.handler = DocumentHandler

\* download_location of save_html_page (lines 252-254) for the content
HtmlTarget == AbsJoin(Top.child_path, StripIllegal(Node.title) \o <<".html">>)

\* C15: when <basename>.html is already there, save_html_page sends no
\* request, changes no file or directory, returns False so that html_pages
\* is not incremented, and process_content goes straight on to the children
C15_ExistingPageSkipsCapture ==
    [][(AtCapture /\ IsFile(files, HtmlTarget))
       => /\ gets' = gets /\ files' = files /\ dirs' = dirs /\ writes' = writes
          /\ stats' = stats
          /\ page'.ret = "false" /\ page'.resources = <<>>
          /\ Top'.at = "children"]_vars

\* in the second run save_html_page has met the page of the first run, with
\* its resources folder, and has returned False; no page is counted
C15_Witness ==
    /\ run = 2 /\ page.node # 0 /\ page.ret = "false" /\ stats.html_pages = 0
    /\ \E p \in DOMAIN files :
          /\ files[p].kind = "html"
          /\ \E q \in DOMAIN files : Len(q) = Len(p) + 1 /\ files[q].kind = "bytes"

\* after a run every content of the course has been handed to
\* process_content exactly once, a parent before its children and the
\* children of one parent (or the top-level contents) in listing order
EachNodeOnce ==
    (run >= 1 /\ pc = "idle")
    => /\ Len(visited) = Len(course.nodes)
       /\ \A n \in 1..Len(course.nodes) : \E i \in 1..Len(visited) : visited[i] = n
       /\ \A i, j \in 1..Len(visited) :
             LET a == course.nodes[visited[i]]
                 b == course.nodes[visited[j]]
             IN /\ a.parent = visited[j] => j < i
                /\ (a.parent = b.parent /\ visited[i] < visited[j]) => i < j

\* the steps of process_content, counted down
StageNo(at) ==
    CASE at = "path" -> 10 [] at = "attachments" -> 9 [] at = "att_loop" -> 8
      [] at = "body" -> 7 [] at = "pdf_loop" -> 6 [] at = "html" -> 5
      [] at = "resources" -> 4 [] at = "write" -> 3 [] at = "children" -> 2
      [] at = "child_loop" -> 1

\* more than any list of the model is long
RankBase == 2 * (MaxNodes + MaxDeepNodes + MaxTags) + 4

\* what one call of process_content still has to do itself
FrameRank(f) ==
    StageNo(f.at) * RankBase + (RankBase - 1 - (IF f.at = "resources" THEN page.i ELSE f.i))

RECURSIVE StackRank(_)
StackRank(k) == IF k = 0 THEN 0 ELSE FrameRank(stack[k]) + StackRank(k - 1)

\* a natural number that measures what is left of the run
Rank ==
    StackRank(Len(stack)) + (Len(course.nodes) - Len(visited)) * 12 * RankBase
    + (IF pc = "running" THEN 1 ELSE 0)

\* a call of process_content that is under way has its next step: the
\* guards of the actions, stage by stage
RunCanStep ==
    (pc = "running" /\ stack # <<>>)
    => \/ Top.at \in {"path", "attachments", "body", "html", "write", "children"}
       \/ Top.at \in {"att_loop", "pdf_loop"} /\ Top.i \in 1..Len(Top.list)
       \/ Top.at = "resources" /\ page.i \in 1..Len(page.resources)
       \/ Top.at = "child_loop" /\ Top.i \in 1..(Len(Top.list) + 1)

\* C17: every run comes to its end (a running run always has a next step,
\* and every step brings the natural number Rank down), and then every
\* content reachable from the top-level contents has been processed exactly
\* once, parent before children and siblings in listing order
C17_EachNodeOnceAndEnds ==
    /\ [](EachNodeOnce /\ Rank >= 0 /\ RunCanStep)
    /\ [][pc = "running" => Rank' < Rank]_vars

\* a run over a course of MaxNodes contents, one of them a container of two
\* children, is over
C17_Witness ==
    /\ run = 1 /\ pc = "idle" /\ Len(visited) = MaxNodes
    /\ \E n \in 1..Len(course.nodes) : Len(Children(course.nodes, n)) = 2

\* C16: no failure of a call made for one content ends the run: the run is
\* never left by an exception, so the contents that remain are processed and
\* the summary is reached
C16_NodeFailureNeverStopsRun == pc # "raised"

\* C18: in the saved document no href or src attribute still holds the
\* original URL of a reference whose fetch was answered 200, whether the
\* body wrote that URL plainly or with HTML entities
C18_NoFetchedUrlLeft ==
    page.ret = "true" =>
        \A k \in 1..Len(page.resources) :
            page.results[k].status = "200" =>
                \A i \in RefsTo(PageBody, page.resources[k].url) :
                    PageBody[i].attr \in {"href", "src"}
                        => SavedBody[i].val # PageBody[i].val

\* C19: download_resource sends no request for a reference whose target
\* path has an empty file name: a file name that the sanitizer empties has
\* been replaced by a synthesized one before the fetch
C19_NoFetchAtEmptyName ==
    [][(AtResource /\ PageFilenameSafe = <<>>) => gets' = gets]_vars

\* C20: no call of process_content asks content.children() for the child
\* list of its container more than once
C20_ChildrenListedOnce ==
    \A k \in 1..Len(stack) : stack[k].listings <= 1

\* this call of this content raised in the run
HasRaised(n, call) == \E j \in 1..Len(raised) : raised[j] = [node |-> n, call |-> call]

\* C21: process_content is called for a child only if the listing of its
\* parent made while the parent's path was assigned (line 396) did not raise
C21_ChildrenOnlyAfterFirstListing ==
    \A k \in 1..Len(visited) :
        course.nodes[visited[k]].parent # 0
            => ~HasRaised(course.nodes[visited[k]].parent, "children_396")

\* a GET for this URL was sent in the run
Requested(url) == \E j \in 1..Len(gets) : gets[j] = Resolved(url)

\* C22: whatever failed while the attachments of a content were processed,
\* the steps that follow are made.  When the run is over, for every content
\* process_content was called for: every attachment was requested unless
\* content.attachments() itself raised, every embedded PDF link was
\* requested, and every child was visited unless the listing of line 439
\* raised.  And a document with a body that has reached step 4 has had
\* save_html_page called for it.
C22_StepsIsolated ==
    /\ (pc = "idle" /\ run = 1) =>
        \A k \in 1..Len(visited) :
            LET n == visited[k]
                pdf_links == extract_pdf_links_from_body(course.nodes[n].body)
            IN /\ ~HasRaised(n, "attachments_411") =>
                      \A i \in 1..Len(course.nodes[n].atts) :
                          Requested(AttachmentUrl(n, i))
               /\ \A j \in 1..Len(pdf_links) : Requested(pdf_links[j].url)
               /\ ~HasRaised(n, "children_439") =>
                      \A c \in 1..Len(course.nodes) :
                          course.nodes[c].parent = n =>
                              \E j \in 1..Len(visited) : visited[j] = c
    /\ (/\ pc = "running" /\ stack # <<>> /\ Top.at = "children"
        /\ course.save_html_pages /\ Node.handler = DocumentHandler
        /\ Node.body # <<>>)
       => (page.node = Top.node /\ page.ret # "none")

\* the run is over; the download of the first attachment of a container
\* failed, its second attachment was downloaded, its page was written and
\* its child was visited; and the attachment listing of the child raised
\* while the embedded PDF of the child was downloaded
C22_Witness ==
    /\ pc = "idle" /\ run = 1 /\ Len(course.nodes) = 2 /\ visited = <<1, 2>>
    /\ course.nodes[1].atts # <<>> /\ course.nodes[2].body # <<>>
    /\ Resolved(AttachmentUrl(1, 1)) \in DOMAIN remote
    /\ remote[Resolved(AttachmentUrl(1, 1))] # "200"
    /\ Resolved(AttachmentUrl(1, 2)) \in DOMAIN remote
    /\ remote[Resolved(AttachmentUrl(1, 2))] = "200"
    /\ \E p \in DOMAIN files : files[p].kind = "html"
    /\ HasRaised(2, "attachments_411")
    /\ stats.embedded_pdfs = 1

\* C23: an exception raised while the markup of a fetched reference is
\* rewritten does not keep the document from being written: once
\* save_html_page has fetched a reference it returns True and the HTML
\* file is on disk
C23_RaiseInRewriteStillWrites ==
    (/\ page.node # 0 /\ page.ret # "none"
     /\ \E k \in 1..Len(page.results) : page.results[k].local_path # NoName)
    => (page.ret = "true" /\ page.download_location \in DOMAIN files)

\* C24: in the saved document every <a> attachment marker of an image
\* whose fetch was answered 200 has become an <img> tag with the local path
\* as its source
C24_ImageMarkerReplaced ==
    page.ret = "true" =>
        \A k \in 1..Len(page.resources) :
            (/\ page.resources[k].type = "attachment"
             /\ IsImageMime(page.resources[k].mime)
             /\ page.results[k].status = "200")
            => \A i \in RefsTo(PageBody, page.resources[k].url) :
                   BbfileMatch(PageBody[i]) =>
                       /\ SavedBody[i].el = "img"
                       /\ SavedBody[i].val = LocalLink(page.filename_base,
                                                       page.results[k].local_path)

RECURSIVE HandedDir(_)
\* the directory the claim expects a content to be handed: the base path
\* for a top-level content, the output directory of the parent otherwise
HandedDir(n) ==
    LET p == course.nodes[n].parent
    IN IF p = 0 THEN base_path
       ELSE Append(HandedDir(p), StripIllegal(course.nodes[p].title))

\* the output directory the claim expects of a content
OutputDir(n) ==
    IF HasChildren(course.nodes, n)
    THEN Append(HandedDir(n), StripIllegal(course.nodes[n].title))
    ELSE HandedDir(n)

C26_LocalLinksResolve ==
    [][(pc = "running" /\ stack # <<>> /\ Top.at = "write"
        /\ page.download_location \in DOMAIN files')
       => \A i \in 1..Len(files'[page.download_location].body) :
              LET t == files'[page.download_location].body[i]
              IN t.val.scheme = "local"
                     => IsFile(files', Append(page.resources_folder, t.val.file))]_vars

\* the HTML file has been written with a local link in its body
C26_Witness ==
    /\ page.ret = "true" /\ page.download_location \in DOMAIN files
    /\ \E i \in 1..Len(SavedBody) : SavedBody[i].val.scheme = "local"
    /\ \E i \in 1..Len(SavedBody) : SavedBody[i].val.scheme # "local"

\* the path of the HTML file of a document
HtmlPath(n) == AbsJoin(OutputDir(n), StripIllegal(course.nodes[n].title) \o <<".html">>)

\* the documents whose HTML file was on disk when the run began
CapturedBefore ==
    {n \in 1..Len(course.nodes) :
        /\ course.nodes[n].handler = DocumentHandler /\ course.nodes[n].body # <<>>
        /\ HtmlPath(n) \in DOMAIN snap.files}

IsAttachmentFile(w) ==
    /\ files[w].kind = "bytes"
    /\ files[w].from.dir # <<>> /\ files[w].from.dir[1] = "contents"

\* the file at this path is in a <basename>_files directory
IsResourceFile(w) ==
    LET d == Parent(w) IN d # <<>> /\ EndsWith(d[Len(d)], "_files")

\* the file at this path holds the bytes of an embedded PDF
IsEmbeddedPdfFile(w) ==
    /\ files[w].kind = "bytes" /\ ~IsAttachmentFile(w) /\ ~IsResourceFile(w)

\* C28: each counter is the number of files of its kind written in this
\* run: a download that met an existing file and a download that failed are
\* not counted, and html_pages is 0 when pages are not captured
C28_CountersCountWrites ==
    /\ \A i \in 1..Len(writes) : writes[i] \in DOMAIN files
    /\ stats.api_attachments =
           Cardinality({i \in 1..Len(writes) : IsAttachmentFile(writes[i])})
    /\ stats.embedded_pdfs =
           Cardinality({i \in 1..Len(writes) : IsEmbeddedPdfFile(writes[i])})
    /\ stats.html_pages =
           Cardinality({i \in 1..Len(writes) : files[writes[i]].kind = "html"})
    /\ ~course.save_html_pages => stats.html_pages = 0

\* the second run is over: it has sent requests, every download has met
\* the file of the first run or has failed, and every counter is 0
C28_Witness ==
    /\ run = 2 /\ pc = "idle" /\ gets # <<>> /\ stats = ZeroStats
    /\ \E p \in DOMAIN files : files[p].kind = "html"
    /\ \E p \in DOMAIN files : IsAttachmentFile(p)
    /\ \E u \in DOMAIN remote : remote[u] # "200"

\* the modules and folders download_module_recursive was called for after
\* event k of the run
LaterCalls(k) ==
    {visited[j].node : j \in {j \in (k + 1)..Len(visited) : visited[j].kind = "call"}}

\* C29: once download_module_recursive has returned, every subfolder that
\* expand_module returned for a module has been attempted after it
C29_EverySubfolderAttempted ==
    (pc = "done") =>
        \A k \in 1..Len(visited) :
            visited[k].kind = "expand" =>
                \A s \in 1..Len(visited[k].subfolders) :
                    visited[k].subfolders[s] \in LaterCalls(k)

\* C30: sanitize_filename of scraper.py is idempotent: sanitizing its result
\* changes nothing, for names shorter and longer than 100 characters
C30_ScraperSanitizeIdempotent ==
    [][ScraperSanitizeAgain => san'.again = san.out]_vars

\* C6: sanitize_filename is idempotent: sanitizing its result changes nothing
C6_SanitizeIdempotent ==
    san.pc = "resanitized" => san.again = san.out

\* C7: no name produced by sanitize_filename or by download_pdf's
\* filename_safe expression holds one of the characters < > : " / \ | ? *
C7_NoIllegalChar ==
    san.pc \in {"sanitized", "pdf_safe"} => ~HasIllegal(san.out)

====
